---- MODULE Spec2Model ----
(***************************************************************************)
(* Model of scada2protocol (src/main.py): the value coercer parse_value,   *)
(* the header factory make_header and the row loop of transform.           *)
(*                                                                         *)
(* Texts are sequences of tokens.  The tokens "0", "1", ":" and "x" are    *)
(* single characters; the other tokens stand for colon-free substrings of  *)
(* a date text.  Python values are records [k, s, n] tagged with their     *)
(* Python type k.  A Python dict is a sequence of [key, val] items in      *)
(* insertion order.                                                        *)
(***************************************************************************)
EXTENDS Integers, Sequences, FiniteSets, TLC

\* ───────────── bounds of the model ─────────────
MaxLen == 7      \* longest generated cell text, in tokens
MaxRows == 2     \* most rows in the data frame
ShortLen == 3    \* longest generated cell text for the types other than duration

\* ───────────── Python values ─────────────
None == [k |-> "None", s |-> <<>>, n |-> 0]
StrV(s) == [k |-> "str", s |-> s, n |-> 0]
IntV(n) == [k |-> "int", s |-> <<>>, n |-> n]
FloatV(n) == [k |-> "float", s |-> <<>>, n |-> n]

\* raw cells of the data frame: NaN for an empty cell, text or integer cells
NaN == [k |-> "nan", s |-> <<>>, n |-> 0]
RawStr(s) == [k |-> "str", s |-> s, n |-> 0]
RawInt(n) == [k |-> "int", s |-> <<>>, n |-> n]

\* outcome of a call: a returned value or a raised exception
Ok(v) == [ok |-> TRUE, val |-> v, exc |-> "none"]
Raise(e) == [ok |-> FALSE, val |-> None, exc |-> e]

ValueErrorLiteral == "ValueError: invalid literal"
IndexError == "IndexError: list index out of range"
ParserError == "ParserError"
UnknownTimeZoneError == "UnknownTimeZoneError"
UnsupportedType == "ValueError: Unsupported type in mapping"
UnsupportedStream == "ValueError: Unsupported stream in mapping"

\* dict.get(key, default)
Get(cfg, key, dflt) == IF key \in DOMAIN cfg THEN cfg[key] ELSE dflt

\* ───────────── text helpers ─────────────
DigitChars == <<"0", "1", "2", "3", "4", "5", "6", "7", "8", "9">>
Digits == {DigitChars[i] : i \in 1..10}
DigitVal(c) == (CHOOSE i \in 1..10 : DigitChars[i] = c) - 1
IsDigits(s) == Len(s) > 0 /\ \A i \in 1..Len(s) : s[i] \in Digits

RECURSIVE DecVal(_)
DecVal(s) ==
    IF s = <<>> THEN 0
    ELSE DecVal(SubSeq(s, 1, Len(s) - 1)) * 10 + DigitVal(s[Len(s)])

\* str(n) for the non-negative integers of the model
RECURSIVE DecText(_)
DecText(n) ==
    IF n < 10 THEN << DigitChars[n + 1] >>
    ELSE Append(DecText(n \div 10), DigitChars[(n % 10) + 1])

\* str(raw)
py_str(raw) == IF raw.k = "int" THEN DecText(raw.n) ELSE raw.s

\* int(raw)
py_int(raw) ==
    IF raw.k = "int" THEN Ok(IntV(raw.n))
    ELSE IF IsDigits(raw.s) THEN Ok(IntV(DecVal(raw.s)))
    ELSE Raise(ValueErrorLiteral)

\* float(raw)
py_float(raw) ==
    IF raw.k = "int" THEN Ok(FloatV(raw.n))
    ELSE IF IsDigits(raw.s) THEN Ok(FloatV(DecVal(raw.s)))
    ELSE Raise(ValueErrorLiteral)

\* s.split(sep)
RECURSIVE split(_, _)
split(s, sep) ==
    IF \A i \in 1..Len(s) : s[i] # sep THEN << s >>
    ELSE LET i == CHOOSE j \in 1..Len(s) :
                      s[j] = sep /\ \A h \in 1..(j - 1) : s[h] # sep
         IN  << SubSeq(s, 1, i - 1) >> \o split(SubSeq(s, i + 1, Len(s)), sep)

\* variant of pd_isna that tests for None only (raw is None)
pd_isna_none_only(raw) == raw.k = "None"

\* pd.isna(raw): an empty cell (NaN) or a column the row does not have (None)
pd_isna(raw) == raw.k \in {"nan", "None"}

\* ───────────── Value Coercer ─────────────
\* dateutil's parser.parse(text, dayfirst=True) on the date texts of the
\* model: the naive wall-clock time in ms since 1970-01-01 00:00, and the
\* UTC offset in minutes when the text carries one.  A text with an unknown
\* word such as "x" makes the parser fail.  The data frames and the coercer
\* arguments below give a datetime field no other text than these.
Date2Jan == << "02/01/1970" >>
Date3Jan == << "03/01/1970" >>
Date2JanPlus1 == << "02/01/1970 01", ":", "00+01", ":", "00" >>
DateTexts == {Date2Jan, Date3Jan, Date2JanPlus1}
MsPerDay == 86400000
MsPerMinute == 60000

parser_parse(text) ==
    IF text = Date2Jan
    THEN [ok |-> TRUE, wall |-> MsPerDay, aware |-> FALSE, off |-> 0]
    ELSE IF text = Date3Jan
    THEN [ok |-> TRUE, wall |-> 2 * MsPerDay, aware |-> FALSE, off |-> 0]
    ELSE IF text = Date2JanPlus1
    THEN [ok |-> TRUE, wall |-> MsPerDay + 60 * MsPerMinute,
          aware |-> TRUE, off |-> 60]
    ELSE [ok |-> FALSE, wall |-> 0, aware |-> FALSE, off |-> 0]

\* pytz.timezone(name): the UTC offset in minutes of the zones of the model
TimeZones == {"UTC", "Etc/GMT-2"}
pytz_timezone(name) == IF name = "Etc/GMT-2" THEN 120 ELSE 0

\* the datetime branch of parse_value
parse_datetime(raw, cfg) ==
    LET dt == parser_parse(py_str(raw))
        name == Get(cfg, "timezone", "UTC")
        tz == pytz_timezone(name)
        off == IF dt.aware THEN dt.off ELSE tz
    IN  IF ~dt.ok THEN Raise(ParserError)
        ELSE IF name \notin TimeZones THEN Raise(UnknownTimeZoneError)
        ELSE Ok(IntV(dt.wall - off * MsPerMinute))

\* the duration branch of parse_value
parse_duration(raw) ==
    LET parts == split(py_str(raw), ":")
        hours == py_int(RawStr(parts[1]))
    IN  IF ~hours.ok THEN hours
        ELSE IF Len(parts) < 2 THEN Raise(IndexError)
        ELSE LET minutes == py_int(RawStr(parts[2]))
             IN  IF ~minutes.ok THEN minutes
                 ELSE IF Len(parts) < 3 THEN Raise(IndexError)
                 ELSE LET seconds == py_float(RawStr(parts[3]))
                      IN  IF ~seconds.ok THEN seconds
                          ELSE Ok(FloatV(hours.val.n * 3600
                                         + minutes.val.n * 60
                                         + seconds.val.n))

SupportedTypes == {"string", "int", "float", "datetime", "duration"}

parse_value(raw, cfg) ==
    IF pd_isna(raw) THEN Ok(Get(cfg, "default", None))
    ELSE LET t == cfg["type"]
         IN  IF t = "string" THEN Ok(StrV(py_str(raw)))
             ELSE IF t = "int" THEN py_int(raw)
             ELSE IF t = "float" THEN py_float(raw)
             ELSE IF t = "datetime" THEN parse_datetime(raw, cfg)
             ELSE IF t = "duration" THEN parse_duration(raw)
             ELSE Raise(UnsupportedType)

\* ───────────── dicts in insertion order ─────────────
Keys(d) == {d[i].key : i \in 1..Len(d)}
Lookup(d, key) == d[CHOOSE i \in 1..Len(d) : d[i].key = key].val
DictSet(d, key, val) ==
    IF key \in Keys(d)
    THEN [i \in 1..Len(d) |->
             IF d[i].key = key THEN [key |-> key, val |-> val] ELSE d[i]]
    ELSE Append(d, [key |-> key, val |-> val])

\* row.get(col)
row_get(row, col) == IF col \in DOMAIN row THEN row[col] ELSE None

\* ───────────── Header Factory ─────────────
make_header(stream, version, uuid4, utcnow) ==
    LET parts == split(stream, ".")
    IN  [stream |-> parts[1], function |-> parts[2], message_id |-> uuid4,
         protocol_version |-> version, sent_time |-> utcnow]

\* ───────────── telemetry accumulation ─────────────
\* variants of the per-row reset that keep what the previous row left
keep_buckets(old) == old
keep_ts_epoch(old) == old

\* lines 83 and 84: the state a row of the telemetry stream starts from
new_buckets(old) == <<>>
new_ts_epoch(old) == None

\* variant of telemetry_field that writes a timestamp into every bucket of
\* the row as soon as it is coerced
telemetry_field_patching(bk, ts, cfg, val) ==
    LET tag == cfg["tag"]
        tid == Get(cfg, "turbine_id", None)
        ts1 == IF tag = "timestamp" THEN val ELSE ts
        bk0 == IF tag = "timestamp"
               THEN [i \in 1..Len(bk) |->
                        [key |-> bk[i].key,
                         val |-> DictSet(bk[i].val, "timestamp", val)]]
               ELSE bk
        bk1 == IF tid \notin Keys(bk0)
               THEN DictSet(bk0, tid,
                            << [key |-> "turbine_id", val |-> tid],
                               [key |-> "timestamp", val |-> ts1] >>)
               ELSE bk0
    IN  [buckets |-> DictSet(bk1, tid, DictSet(Lookup(bk1, tid), tag, val)),
         ts_epoch |-> ts1]

\* variant of telemetry_field that reads the group key under another name,
\* so that every field lands in the None bucket
telemetry_field_one_bucket(bk, ts, cfg, val) ==
    LET tag == cfg["tag"]
        tid == Get(cfg, "turbine", None)
        ts1 == IF tag = "timestamp" THEN val ELSE ts
        bk1 == IF tid \notin Keys(bk)
               THEN DictSet(bk, tid,
                            << [key |-> "turbine_id", val |-> tid],
                               [key |-> "timestamp", val |-> ts1] >>)
               ELSE bk
    IN  [buckets |-> DictSet(bk1, tid, DictSet(Lookup(bk1, tid), tag, val)),
         ts_epoch |-> ts1]

\* lines 88 to 100 for one field whose value parse_value returned
telemetry_field(bk, ts, cfg, val) ==
    LET tag == cfg["tag"]
        tid == Get(cfg, "turbine_id", None)
        ts1 == IF tag = "timestamp" THEN val ELSE ts
        bk1 == IF tid \notin Keys(bk)
               THEN DictSet(bk, tid,
                            << [key |-> "turbine_id", val |-> tid],
                               [key |-> "timestamp", val |-> ts1] >>)
               ELSE bk
    IN  [buckets |-> DictSet(bk1, tid, DictSet(Lookup(bk1, tid), tag, val)),
         ts_epoch |-> ts1]

\* ───────────── mappings and data frames of the model ─────────────
TELEMETRY == << "T1", ".", "F01" >>
ALARM == << "T1", ".", "F02" >>
CURVE == << "T2", ".", "F01" >>
Streams == {TELEMETRY, ALARM, CURVE, << "T9", ".", "F99" >>, << "T1F01" >>}

TidA == StrV(<< "A" >>)
TidB == StrV(<< "B" >>)
NA == StrV(<< "N/A" >>)

FieldsTsFirst ==
    << [col |-> "c1", cfg |-> [type |-> "datetime", tag |-> "timestamp",
                               timezone |-> "Etc/GMT-2"]],
       [col |-> "c2", cfg |-> [type |-> "float", tag |-> "power",
                               turbine_id |-> TidA]],
       [col |-> "c3", cfg |-> [type |-> "float", tag |-> "power",
                               turbine_id |-> TidB]] >>
FieldsTsInGroup ==
    << [col |-> "c1", cfg |-> [type |-> "float", tag |-> "rpm",
                               turbine_id |-> TidA, default |-> IntV(0)]],
       [col |-> "c2", cfg |-> [type |-> "datetime", tag |-> "timestamp",
                               turbine_id |-> TidA]],
       [col |-> "c3", cfg |-> [type |-> "int", tag |-> "rpm",
                               turbine_id |-> TidB]] >>
FieldsTsLast ==
    << [col |-> "c1", cfg |-> [type |-> "float", tag |-> "power",
                               turbine_id |-> TidA]],
       [col |-> "c2", cfg |-> [type |-> "float", tag |-> "power",
                               turbine_id |-> TidB]],
       [col |-> "c3", cfg |-> [type |-> "datetime", tag |-> "timestamp"]] >>
FieldsTsOwnGroup ==
    << [col |-> "c1", cfg |-> [type |-> "datetime", tag |-> "timestamp",
                               turbine_id |-> TidB]],
       [col |-> "c2", cfg |-> [type |-> "float", tag |-> "power",
                               turbine_id |-> TidA]],
       [col |-> "c9", cfg |-> [type |-> "string", tag |-> "site",
                               turbine_id |-> TidB, default |-> NA]] >>
FieldsAlarm ==
    << [col |-> "c1", cfg |-> [type |-> "int", tag |-> "alarm_code"]],
       [col |-> "c2", cfg |-> [type |-> "string", tag |-> "description",
                               default |-> StrV(<<>>)]],
       [col |-> "c3", cfg |-> [type |-> "duration", tag |-> "duration"]] >>
FieldsBadType ==
    << [col |-> "c1", cfg |-> [type |-> "bool", tag |-> "flag",
                               default |-> NA]],
       [col |-> "c2", cfg |-> [type |-> "int", tag |-> "count",
                               turbine_id |-> TidA]] >>
FieldLists ==
    {FieldsTsFirst, FieldsTsInGroup, FieldsTsLast, FieldsTsOwnGroup,
     FieldsAlarm, FieldsBadType, <<>>}

Mappings ==
    {[stream |-> st, version |-> "1.0", fields |-> fl] :
        st \in Streams, fl \in FieldLists}

\* the cells a column of the data frame holds, by the type its field declares
CellsFor(t) ==
    IF t = "int" THEN {RawInt(42), RawStr(<< "x" >>)}
    ELSE IF t = "float" THEN {NaN, RawStr(<< "1" >>)}
    ELSE IF t = "string" THEN {NaN, RawStr(<< "x" >>)}
    ELSE IF t = "datetime" THEN {RawStr(Date2Jan), RawStr(Date3Jan)}
    ELSE IF t = "duration"
    THEN {RawStr(<< "1", ":", "0", ":", "1" >>), RawStr(<< "1", ":", "1" >>)}
    ELSE {NaN, RawStr(<< "1" >>)}

DfColumns == {"c1", "c2", "c3"}
TypeOfColumn(fl, c) ==
    IF \E i \in 1..Len(fl) : fl[i].col = c
    THEN fl[CHOOSE i \in 1..Len(fl) : fl[i].col = c].cfg["type"]
    ELSE "unmapped"
RowsFor(fl) ==
    {row \in [DfColumns -> UNION {CellsFor(t) : t \in SupportedTypes \cup {"bool"}}] :
        \A c \in DfColumns :
            IF TypeOfColumn(fl, c) = "unmapped" THEN row[c] = NaN
            ELSE row[c] \in CellsFor(TypeOfColumn(fl, c))}
DataFrames(fl) ==
    UNION {[1..n -> RowsFor(fl)] : n \in 0..MaxRows}

\* ───────────── transform ─────────────
VARIABLES
    m,          \* the mapping load_mapping returned
    df,         \* the rows of the data frame
    pc,         \* position of transform
    r,          \* number of rows iterrows() has yielded
    f,          \* number of fields of the current row already processed
    g,          \* number of buckets of the current row already emitted
    buckets,    \* telemetry: turbine_id -> payload
    ts_epoch,   \* telemetry: the timestamp seen so far in the row
    payload,    \* alarm and curve: the payload being built
    messages,   \* the list of messages
    result,     \* what the caller of transform receives
    clock,      \* the wall clock utcnow() reads
    coerced,    \* history: the <<row, field>> pairs parse_value was called on
    arg,        \* coercer harness: the [raw, cfg] argument
    ret         \* coercer harness: what parse_value did

vars == << m, df, pc, r, f, g, buckets, ts_epoch, payload, messages, result,
           clock, coerced, arg, ret >>

ClockSamples == {0, 1}
Running == [status |-> "running", exc |-> "none", messages |-> <<>>]
NoCall == [done |-> FALSE, out |-> Ok(None)]
NoArg == [raw |-> NaN, cfg |-> [type |-> "string", tag |-> "none"]]

Init ==
    /\ m \in Mappings
    /\ df \in DataFrames(m.fields)
    /\ pc = "for_row"
    /\ r = 0 /\ f = 0 /\ g = 0
    /\ buckets = <<>> /\ ts_epoch = None /\ payload = <<>>
    /\ messages = <<>>
    /\ result = Running
    /\ clock = 0
    /\ coerced = {}
    /\ arg = NoArg /\ ret = NoCall

\* variant of row that stays on the first row of the data frame
row_first == df[1]

fields == m.fields
row == df[r]
Message(h, p) == [header |-> h, payload |-> p]
harness == << arg, ret >>

\* line 79 with line 81: the next row of a telemetry mapping
RowTelemetry ==
    /\ pc = "for_row" /\ r < Len(df) /\ m.stream = TELEMETRY
    /\ r' = r + 1 /\ f' = 0 /\ g' = 0
    /\ buckets' = new_buckets(buckets)
    /\ ts_epoch' = new_ts_epoch(ts_epoch)
    /\ pc' = IF Len(fields) = 0 THEN "for_row" ELSE "telemetry"
    /\ UNCHANGED << m, df, payload, messages, result, clock, coerced, harness >>

\* lines 85 to 100: one field of a telemetry row
TelemetryField ==
    /\ pc = "telemetry" /\ f < Len(fields)
    /\ LET cfg == fields[f + 1].cfg
           res == parse_value(row_get(row, fields[f + 1].col), cfg)
           nxt == telemetry_field(buckets, ts_epoch, cfg, res.val)
       IN  /\ coerced' = coerced \cup {<< r, f + 1 >>}
           /\ IF res.ok
              THEN /\ buckets' = nxt.buckets
                   /\ ts_epoch' = nxt.ts_epoch
                   /\ f' = f + 1
                   /\ pc' = IF f + 1 = Len(fields) THEN "telemetry_emit"
                                                   ELSE "telemetry"
                   /\ UNCHANGED result
              ELSE /\ pc' = "raised"
                   /\ result' = [status |-> "raised", exc |-> res.exc,
                                 messages |-> <<>>]
                   /\ UNCHANGED << buckets, ts_epoch, f >>
    /\ UNCHANGED << m, df, r, g, payload, messages, clock, harness >>

\* lines 102 to 104: the message of one bucket
TelemetryEmit ==
    /\ pc = "telemetry_emit" /\ g < Len(buckets)
    /\ \E now \in ClockSamples :
          /\ now >= clock
          /\ clock' = now
          /\ messages' = Append(messages,
                Message(make_header(m.stream, m.version, Len(messages), now),
                        buckets[g + 1].val))
    /\ g' = g + 1
    /\ pc' = IF g + 1 = Len(buckets) THEN "for_row" ELSE "telemetry_emit"
    /\ UNCHANGED << m, df, r, f, buckets, ts_epoch, payload, result, coerced,
                    harness >>

\* lines 107 to 108 and 117 to 118: the next row of a one-message-per-row
\* stream
FlatRow(stream, at) ==
    /\ pc = "for_row" /\ r < Len(df) /\ m.stream = stream
    /\ r' = r + 1 /\ f' = 0
    /\ payload' = <<>>
    /\ pc' = IF Len(fields) = 0 THEN at \o "_emit" ELSE at
    /\ UNCHANGED << m, df, g, buckets, ts_epoch, messages, result, clock,
                    coerced, harness >>

\* variant of FlatField that puts the default in place of a value that does
\* not coerce and goes on
FlatField_defaulting(at) ==
    /\ pc = at /\ f < Len(fields)
    /\ LET cfg == fields[f + 1].cfg
           res == parse_value(row_get(row, fields[f + 1].col), cfg)
           val == IF res.ok THEN res.val ELSE Get(cfg, "default", None)
       IN  /\ coerced' = coerced \cup {<< r, f + 1 >>}
           /\ payload' = DictSet(payload, cfg["tag"], val)
           /\ f' = f + 1
           /\ pc' = IF f + 1 = Len(fields) THEN at \o "_emit" ELSE at
    /\ UNCHANGED << m, df, r, g, buckets, ts_epoch, messages, clock, harness,
                    result >>

\* lines 109 to 112 and 119 to 122: one field of the row
FlatField(at) ==
    /\ pc = at /\ f < Len(fields)
    /\ LET cfg == fields[f + 1].cfg
           res == parse_value(row_get(row, fields[f + 1].col), cfg)
       IN  /\ coerced' = coerced \cup {<< r, f + 1 >>}
           /\ IF res.ok
              THEN /\ payload' = DictSet(payload, cfg["tag"], res.val)
                   /\ f' = f + 1
                   /\ pc' = IF f + 1 = Len(fields) THEN at \o "_emit" ELSE at
                   /\ UNCHANGED result
              ELSE /\ pc' = "raised"
                   /\ result' = [status |-> "raised", exc |-> res.exc,
                                 messages |-> <<>>]
                   /\ UNCHANGED << payload, f >>
    /\ UNCHANGED << m, df, r, g, buckets, ts_epoch, messages, clock, harness >>

\* lines 113 to 114 and 123 to 124: the message of the row
FlatEmit(at) ==
    /\ pc = at \o "_emit"
    /\ \E now \in ClockSamples :
          /\ now >= clock
          /\ clock' = now
          /\ messages' = Append(messages,
                Message(make_header(m.stream, m.version, Len(messages), now),
                        payload))
    /\ pc' = "for_row"
    /\ UNCHANGED << m, df, r, f, g, buckets, ts_epoch, payload, result,
                    coerced, harness >>

RowAlarm == FlatRow(ALARM, "alarm")
AlarmField == FlatField("alarm")
AlarmEmit == FlatEmit("alarm")
RowCurve == FlatRow(CURVE, "curve")
CurveField == FlatField("curve")
CurveEmit == FlatEmit("curve")

\* lines 126 to 127: a row of a mapping whose stream is none of the three
RowUnsupported ==
    /\ pc = "for_row" /\ r < Len(df)
    /\ m.stream \notin {TELEMETRY, ALARM, CURVE}
    /\ r' = r + 1
    /\ pc' = "raised"
    /\ result' = [status |-> "raised", exc |-> UnsupportedStream,
                  messages |-> <<>>]
    /\ UNCHANGED << m, df, f, g, buckets, ts_epoch, payload, messages, clock,
                    coerced, harness >>

\* line 134: the rows are exhausted
Return ==
    /\ pc = "for_row" /\ r = Len(df)
    /\ pc' = "returned"
    /\ result' = [status |-> "returned", exc |-> "none",
                  messages |-> messages]
    /\ UNCHANGED << m, df, r, f, g, buckets, ts_epoch, payload, messages,
                    clock, coerced, harness >>

Next ==
    \/ RowTelemetry \/ TelemetryField \/ TelemetryEmit
    \/ RowAlarm \/ AlarmField \/ AlarmEmit
    \/ RowCurve \/ CurveField \/ CurveEmit
    \/ RowUnsupported
    \/ Return

Spec == Init /\ [][Next]_vars

\* ───────────── the coercer on its own ─────────────
Alphabet == {"0", "1", ":", "x"}
Texts(n) == UNION {[1..k -> Alphabet] : k \in 0..n}
Defaults == {None, NA, IntV(7)}
CfgsOfType(t) ==
    {[type |-> t, tag |-> "v"]}
    \cup {[type |-> t, tag |-> "v", default |-> d] : d \in Defaults}
    \cup {[type |-> t, tag |-> "v", timezone |-> "Etc/GMT-2"]}
CoercerArgs ==
    {[raw |-> b, cfg |-> c] :
        b \in {NaN, None},
        c \in UNION {CfgsOfType(t) : t \in SupportedTypes \cup {"bool"}}}
    \cup {[raw |-> RawStr(s), cfg |-> [type |-> "duration", tag |-> "v"]] :
            s \in Texts(MaxLen)}
    \cup {[raw |-> RawStr(s), cfg |-> [type |-> t, tag |-> "v"]] :
            s \in Texts(ShortLen), t \in {"string", "int", "float", "bool"}}
    \cup {[raw |-> RawInt(n), cfg |-> [type |-> t, tag |-> "v"]] :
            n \in {0, 42},
            t \in {"string", "int", "float", "duration", "bool"}}
    \cup {[raw |-> RawStr(s), cfg |-> c] :
            s \in DateTexts \cup {<< "x" >>}, c \in CfgsOfType("datetime")}

InitCoercer ==
    /\ arg \in CoercerArgs
    /\ ret = NoCall
    /\ m = [stream |-> TELEMETRY, version |-> "1.0", fields |-> <<>>]
    /\ df = <<>>
    /\ pc = "coercer"
    /\ r = 0 /\ f = 0 /\ g = 0
    /\ buckets = <<>> /\ ts_epoch = None /\ payload = <<>>
    /\ messages = <<>>
    /\ result = Running
    /\ clock = 0
    /\ coerced = {}

\* one call of parse_value
Coerce ==
    /\ pc = "coercer" /\ ~ret.done
    /\ ret' = [done |-> TRUE, out |-> parse_value(arg.raw, arg.cfg)]
    /\ UNCHANGED << m, df, pc, r, f, g, buckets, ts_epoch, payload, messages,
                    result, clock, coerced, arg >>

NextCoercer == Coerce

SpecCoercer == InitCoercer /\ [][NextCoercer]_vars

\* ───────────── vocabulary of the properties ─────────────
Supported == m.stream \in {TELEMETRY, ALARM, CURVE}
FlatStream == m.stream \in {ALARM, CURVE}
Finished == pc \in {"returned", "raised"}
ConfigurationErrors == {UnsupportedType, UnsupportedStream}
CoercionErrors == {ValueErrorLiteral, IndexError, ParserError}
Payloads(msgs) == [i \in 1..Len(msgs) |-> msgs[i].payload]
TidOf(j) == Get(fields[j].cfg, "turbine_id", None)
Tids == {TidOf(j) : j \in 1..Len(fields)}
Tags == {fields[j].cfg.tag : j \in 1..Len(fields)}

\* what parse_value does on the cell of field j of row i
CellResult(i, j) == parse_value(row_get(df[i], fields[j].col), fields[j].cfg)
BadCells ==
    {p \in (1..Len(df)) \X (1..Len(fields)) : ~CellResult(p[1], p[2]).ok}
RowMajorLeq(p, q) == p[1] < q[1] \/ (p[1] = q[1] /\ p[2] <= q[2])
FirstBadCell == CHOOSE p \in BadCells : \A q \in BadCells : RowMajorLeq(p, q)

\* the accumulator of one row taken alone, after its first n fields
RECURSIVE RowFold(_, _)
RowFold(rw, n) ==
    IF n = 0 THEN [buckets |-> <<>>, ts_epoch |-> None]
    ELSE LET prev == RowFold(rw, n - 1)
             cfg == fields[n].cfg
         IN  telemetry_field(prev.buckets, prev.ts_epoch, cfg,
                             parse_value(row_get(rw, fields[n].col), cfg).val)
RowPayloads(rw) ==
    LET b == RowFold(rw, Len(fields)).buckets
    IN  [i \in 1..Len(b) |-> b[i].val]
RECURSIVE PayloadsOfRows(_)
PayloadsOfRows(n) ==
    IF n = 0 THEN <<>> ELSE PayloadsOfRows(n - 1) \o RowPayloads(df[n])

\* the group keys of the mapping in the order the fields first name them
RECURSIVE FirstSight(_)
FirstSight(n) ==
    IF n = 0 THEN <<>>
    ELSE LET before == FirstSight(n - 1)
         IN  IF \E i \in 1..Len(before) : before[i] = TidOf(n) THEN before
             ELSE Append(before, TidOf(n))

\* the payloads the current telemetry row has emitted so far
RowEmitting ==
    /\ m.stream = TELEMETRY /\ r >= 1 /\ Len(fields) > 0
    /\ pc \in {"telemetry_emit", "for_row", "returned"}
Emitted(i) == messages[Len(messages) - g + i].payload

\* ───────────── C1 ─────────────
\* C1: a mapping whose stream is none of T1.F01, T1.F02, T2.F01 makes
\* transform fail with a configuration error, whatever the rows: once
\* transform has finished the caller holds the unsupported-stream error, no
\* field was coerced and no message exists.
C1_UnsupportedStreamFails ==
    ~Supported =>
        /\ coerced = {} /\ messages = <<>>
        /\ Finished => /\ result.status = "raised"
                       /\ result.exc = UnsupportedStream

\* ───────────── C2 ─────────────
\* C2: on T1.F02 and T2.F01, a transform that returns hands back one message
\* per row, in row order, and the i-th payload has exactly one key per tag of
\* the mapping, holding the value parse_value gives for the i-th row's cell
\* of the field declaring that tag (the last such field when a tag repeats).
C2_FlatOneMessagePerRow ==
    (FlatStream /\ pc = "returned") =>
        /\ Len(result.messages) = Len(df)
        /\ \A i \in 1..Len(df) :
              LET p == result.messages[i].payload
              IN  /\ Keys(p) = Tags
                  /\ Len(p) = Cardinality(Tags)
                  /\ \A j \in 1..Len(fields) :
                        (\A h \in (j + 1)..Len(fields) :
                            fields[h].cfg.tag # fields[j].cfg.tag)
                        => Lookup(p, fields[j].cfg.tag) = CellResult(i, j).val

C2_Witness ==
    /\ m.stream = ALARM /\ m.fields = FieldsAlarm /\ pc = "returned"
    /\ Len(df) = 2 /\ Len(result.messages) = 2
    /\ result.messages[1].payload # result.messages[2].payload
    /\ Lookup(result.messages[2].payload, "alarm_code") = IntV(42)

\* ───────────── C3 ─────────────
\* C3: on T1.F01, when the mapping declares a timestamp field without a
\* turbine_id first and then readings of turbines A and B, a finished row
\* has emitted exactly two messages, both with the same timestamp, and each
\* payload holds, besides turbine_id and timestamp, only tags of its own
\* turbine's fields and of the fields without a turbine_id.
TsSharedBeforeAB ==
    /\ Len(fields) >= 3
    /\ fields[1].cfg.tag = "timestamp"
    /\ "turbine_id" \notin DOMAIN fields[1].cfg
    /\ {TidOf(j) : j \in 2..Len(fields)} = {TidA, TidB}
C3_TwoMessagesPerRow ==
    (RowEmitting /\ TsSharedBeforeAB /\ pc = "for_row") =>
        /\ g = 2
        /\ Lookup(Emitted(1), "timestamp") = Lookup(Emitted(2), "timestamp")
        /\ \A i \in 1..g :
              Keys(Emitted(i)) \subseteq
                  {"turbine_id", "timestamp"} \cup
                  {fields[j].cfg.tag : j \in
                      {h \in 1..Len(fields) :
                          TidOf(h) \in {None, Lookup(Emitted(i), "turbine_id")}}}

\* ───────────── C4 ─────────────
\* C4: for every field spec, of a supported type or not, parse_value on an
\* empty cell or a missing column returns the spec's default as it stands
\* (None when the spec has none) and raises nothing.
C4_BlankYieldsDefault ==
    (ret.done /\ arg.raw \in {NaN, None}) =>
        /\ ret.out.ok
        /\ ret.out.val = (IF "default" \in DOMAIN arg.cfg THEN arg.cfg.default
                                                         ELSE None)

C4_Witness ==
    /\ ret.done /\ arg.raw = NaN
    /\ arg.cfg.type = "int" /\ "default" \in DOMAIN arg.cfg
    /\ ret.out = Ok(NA)

\* ───────────── C5 ─────────────
\* C5: on a supported stream, transform returns only when no cell fails to
\* coerce; when some cell fails, parse_value is never called past the first
\* failing cell (in row order, then field order), no message beyond those of
\* the rows before it is ever appended, and transform ends on that cell with
\* the caller holding its exception and no message sequence, every cell up
\* to it having been coerced.
MessagesPerRow == IF m.stream = TELEMETRY THEN Cardinality(Tids) ELSE 1
UpTo(p) == {q \in (1..Len(df)) \X (1..Len(fields)) : RowMajorLeq(q, p)}
C5_CoercionFailureAborts ==
    Supported =>
        /\ pc = "returned" => BadCells = {}
        /\ BadCells # {} =>
              /\ coerced \subseteq UpTo(FirstBadCell)
              /\ Len(messages) <= (FirstBadCell[1] - 1) * MessagesPerRow
        /\ pc = "raised" =>
              /\ BadCells # {}
              /\ r = FirstBadCell[1]
              /\ coerced = UpTo(FirstBadCell)
              /\ Len(messages) = (r - 1) * MessagesPerRow
              /\ result.status = "raised"
              /\ result.exc = CellResult(r, FirstBadCell[2]).exc
              /\ result.messages = <<>>

C5_Witness ==
    /\ m.stream = TELEMETRY /\ m.fields = FieldsTsInGroup
    /\ pc = "raised" /\ r = 1 /\ f = 2 /\ Len(df) = 2
    /\ Len(buckets) = 1 /\ messages = <<>>
    /\ coerced = {<< 1, 1 >>, << 1, 2 >>, << 1, 3 >>}
    /\ result.exc = ValueErrorLiteral

\* ───────────── C6 ─────────────
\* C6: a mapping with a field whose type is outside string, int, float,
\* datetime, duration never produces a message and never has a cell
\* coerced, whatever the rows hold, and transform ends with a configuration
\* error.
HasBadType == \E j \in 1..Len(fields) : fields[j].cfg.type \notin SupportedTypes
C6_BadTypeFailsEarly ==
    HasBadType =>
        /\ messages = <<>> /\ coerced = {}
        /\ Finished => /\ result.status = "raised"
                       /\ result.exc \in ConfigurationErrors

\* ───────────── C7 ─────────────
\* C7: parse_value on a text of a duration field succeeds exactly when the
\* text has two colons and its three components are numerals, it then
\* returns hours*3600 + minutes*60 + seconds, and a text with fewer or more
\* than two colons raises a coercion error.
Colons(s) == Cardinality({i \in 1..Len(s) : s[i] = ":"})
C7_DurationNeedsThreeParts ==
    (ret.done /\ arg.cfg.type = "duration" /\ arg.raw.k = "str") =>
        LET s == arg.raw.s
            parts == split(s, ":")
        IN  /\ ret.out.ok <=> (Colons(s) = 2
                                /\ \A i \in 1..3 : IsDigits(parts[i]))
            /\ ret.out.ok =>
                  ret.out.val = FloatV(DecVal(parts[1]) * 3600
                                       + DecVal(parts[2]) * 60
                                       + DecVal(parts[3]))
            /\ Colons(s) # 2 =>
                  (~ret.out.ok /\ ret.out.exc \in CoercionErrors)

\* ───────────── C8 ─────────────
\* C8: on T1.F01 with one field tagged timestamp, for every payload a row
\* emits: when the timestamp field comes before the first field of the
\* payload's turbine the payload carries the coerced timestamp, and when it
\* comes after that first field the payload carries timestamp = None,
\* whichever turbine the timestamp field belongs to.
TsFields == {j \in 1..Len(fields) : fields[j].cfg.tag = "timestamp"}
TsField == CHOOSE j \in TsFields : TRUE
FirstFieldOf(tid) ==
    CHOOSE j \in 1..Len(fields) :
        TidOf(j) = tid /\ \A h \in 1..(j - 1) : TidOf(h) # tid
TsCase == RowEmitting /\ Cardinality(TsFields) = 1
C8_TimestampByDeclarationOrder ==
    TsCase =>
        \A i \in 1..g :
            LET tid == buckets[i].key
                tsv == Lookup(Emitted(i), "timestamp")
            IN  /\ TsField < FirstFieldOf(tid) => tsv = CellResult(r, TsField).val
                /\ TsField > FirstFieldOf(tid) => tsv = None

\* C8 as amended: the payload carries the coerced timestamp when the
\* timestamp field comes before the first field of the payload's turbine or
\* itself belongs to that turbine, and timestamp = None otherwise.
C8_TimestampUnlessOwnGroup ==
    TsCase =>
        \A i \in 1..g :
            LET tid == buckets[i].key
                tsv == Lookup(Emitted(i), "timestamp")
            IN  /\ Emitted(i) = buckets[i].val
                /\ (TsField < FirstFieldOf(tid) \/ TidOf(TsField) = tid)
                      => tsv = CellResult(r, TsField).val
                /\ (TsField > FirstFieldOf(tid) /\ TidOf(TsField) # tid)
                      => tsv = None

C8_Witness ==
    /\ TsCase /\ m.fields = FieldsTsInGroup /\ pc = "for_row" /\ g = 2
    /\ Lookup(Emitted(1), "timestamp") = IntV(MsPerDay)
    /\ Lookup(Emitted(2), "timestamp") = IntV(MsPerDay)

C8_WitnessNull ==
    /\ TsCase /\ m.fields = FieldsTsLast /\ pc = "for_row" /\ g = 3
    /\ Lookup(Emitted(1), "timestamp") = None
    /\ Lookup(Emitted(3), "timestamp") = IntV(2 * MsPerDay)

RowsDone == IF pc \in {"for_row", "returned"} THEN r ELSE r - 1
C10_RowsAccumulateAlone ==
    (m.stream = TELEMETRY /\ pc # "raised" /\ pc # "coercer") =>
        Payloads(messages) =
            PayloadsOfRows(RowsDone) \o
            (IF pc = "telemetry_emit"
             THEN SubSeq(RowPayloads(df[r]), 1, g) ELSE <<>>)

C10_Witness ==
    /\ m.stream = TELEMETRY /\ m.fields = FieldsTsLast /\ pc = "returned"
    /\ Len(df) = 2 /\ Len(messages) = 6
    /\ Lookup(messages[3].payload, "timestamp") = IntV(MsPerDay)
    /\ Lookup(messages[4].payload, "timestamp") = None
    /\ Lookup(messages[6].payload, "timestamp") = IntV(2 * MsPerDay)

====
